---- MODULE Spec2Model ----
(***************************************************************************)
(* State-machine model of the chat client in src/static/js/chat.js (the    *)
(* second, complete version of the script, lines 235-847) and of the page  *)
(* template that follows it (lines 849-948).                               *)
(*                                                                         *)
(* Text is a sequence of one-character strings, so that trim, startsWith,  *)
(* the extension strip and the line-break conversion are computed the way *)
(* the script computes them.  A fixed literal of the script that no        *)
(* operation looks into is kept as one token of such a sequence.           *)
(* An optional value (a JSON field that may be missing) is a set with at   *)
(* most one element: None or Some(v).                                      *)
(***************************************************************************)
EXTENDS Bags, FiniteSets, Integers, Sequences, TLC

VARIABLES
    sessionId,                  \* const sessionId
    userInput,                  \* userInput.value, the draft text
    currentAttachment,          \* let currentAttachment
    fileUploadValue,            \* fileUpload.value / files[0]
    filePreviewContainerShown,  \* #file-preview-container has no d-none
    imagePreviewShown,          \* #image-preview has no d-none
    imagePreviewSrc,            \* src of the <img> in #image-preview
    imagePreviewStale,          \* history: src was written by a read that a
                                \* removeAttachment() had already superseded
    previewReads,               \* FileReaders of handleFileUpload still reading
    sendReads,                  \* FileReaders of sendMessageWithAttachment still reading
    chat,                       \* the .message children of #chat-container, in order
    inFlight,                   \* fetch() calls whose promise chain has not settled
    requestCount,               \* number of fetch() calls made so far
    carouselShown,              \* #product-carousel-container has no d-none
    productCarousel,            \* the cards in #product-carousel
    infoBtnListeners,           \* the cards' Details buttons have their click listener
    lastAlert,                  \* the text of the latest alert() box, if any
    speechSupported,            \* window has SpeechRecognition or webkitSpeechRecognition
    voiceStatusShown,           \* #voice-status has no d-none (the button is red)
    recognitions,               \* the SpeechRecognition objects started and not ended
    priceCall,                  \* the latest call of a price function: name, arguments, result
    linkCall,                   \* the latest run of the linkifier: pass, input, result
    gestures                    \* number of user gestures so far

vars == <<sessionId, userInput, currentAttachment, fileUploadValue,
          filePreviewContainerShown, imagePreviewShown, imagePreviewSrc,
          imagePreviewStale, previewReads, sendReads, chat, inFlight,
          requestCount, carouselShown, productCarousel, infoBtnListeners, lastAlert,
          speechSupported, voiceStatusShown, recognitions, priceCall, linkCall,
          gestures>>

attachVars == <<currentAttachment, fileUploadValue, filePreviewContainerShown,
                imagePreviewShown, imagePreviewSrc, imagePreviewStale, previewReads>>

carouselVars == <<carouselShown, productCarousel, infoBtnListeners>>

dictationVars == <<speechSupported, voiceStatusShown, recognitions>>

-----------------------------------------------------------------------------
(* Bounds of the model *)

\* user gestures (an edit of the draft, a submit, a click, a file choice) per behaviour
MaxGestures == 4

-----------------------------------------------------------------------------
(* Optional values and text helpers *)

None == {}

Some(v) == {v}

The(m) == CHOOSE v \in m : TRUE

NULL == "null"

SP == " "

NL == "\n"

Q == "\""

Whitespace == {SP, NL, "\t"}

RECURSIVE TrimStart(_)
TrimStart(s) ==
    IF s # <<>> /\ Head(s) \in Whitespace THEN TrimStart(Tail(s)) ELSE s

RECURSIVE TrimEnd(_)
TrimEnd(s) ==
    IF s # <<>> /\ s[Len(s)] \in Whitespace
    THEN TrimEnd(SubSeq(s, 1, Len(s) - 1))
    ELSE s

\* String.prototype.trim
trim(s) == TrimEnd(TrimStart(s))

\* String.prototype.startsWith
startsWith(s, prefix) ==
    /\ Len(prefix) <= Len(s)
    /\ SubSeq(s, 1, Len(prefix)) = prefix

\* message.replace(/\n/g, '<br>')
nl2br(s) == [i \in 1..Len(s) |-> IF s[i] = NL THEN "<br>" ELSE s[i]]

\* `<p>${...}</p>`
Para(s) == <<"<p>">> \o s \o <<"</p>">>

-----------------------------------------------------------------------------
(* Files the user can pick in the file chooser.  A file is named by its    *)
(* identity; its name and MIME type are what the script reads from it.     *)

ImageA == "fileA"

ImageB == "fileB"

Document == "fileC"

Files == {ImageA, ImageB, Document}

\* file.name
FileName(f) ==
    CASE f = ImageA -> <<"a", ".", "p", "n", "g">>
      [] f = ImageB -> <<"b", ".", "x", ".", "j", "p", "g">>
      [] OTHER      -> <<"c", ".", "p", "d", "f">>

\* file.type
FileType(f) ==
    CASE f = ImageA -> <<"i", "m", "a", "g", "e", "/", "p", "n", "g">>
      [] f = ImageB -> <<"i", "m", "a", "g", "e", "/", "j", "p", "e", "g">>
      [] OTHER      -> <<"a", "p", "p", "l", "i", "c", "a", "t", "i", "o", "n",
                         "/", "p", "d", "f">>

\* FileReader.readAsDataURL: the result holds the type and the bytes of the file read
DataURL(f) == <<"data:">> \o FileType(f) \o <<";base64,", f>>

\* file.name.replace(/\.[^/.]+$/, ''): drops a last extension
StripExtension(name) ==
    LET dots == {i \in 1..Len(name) :
                    /\ name[i] = "."
                    /\ i < Len(name)
                    /\ \A j \in (i + 1)..Len(name) : name[j] \notin {"/", "."}}
    IN  IF dots = {} THEN name
        ELSE SubSeq(name, 1, (CHOOSE i \in dots : \A j \in dots : i <= j) - 1)

\* file.type.startsWith('image/')
IsImage(f) == startsWith(FileType(f), <<"i", "m", "a", "g", "e", "/">>)

\* `I'm sending an image of ${...}.`
StagedDraft(f) ==
    <<"I'm sending an image of", SP>> \o StripExtension(FileName(f)) \o <<".">>

\* `I'm sending an image.`
DefaultAttachmentMessage == <<"I'm sending an image.">>

\* `Tell me more about product ${productId}`
DetailsDraft(productId) == <<"Tell me more about product", SP>> \o productId

\* alert('Only image files are supported at this time.')
UnsupportedTypeNotice == "Only image files are supported at this time."

\* alert('Your browser does not support speech recognition. ...')
NoSpeechNotice ==
    "Your browser does not support speech recognition. Please try Chrome or Edge."

PlainApology == <<"Sorry, I encountered an error. Please try again.">>

FileApology ==
    <<"Sorry, I encountered an error processing your file. Please try again.">>

PlainEndpoint == "/api/chat"

FileEndpoint == "/api/chat-with-file"

-----------------------------------------------------------------------------
(* The .message elements of #chat-container *)

\* the welcome message of the template
Welcome ==
    [role |-> "bot", typing |-> FALSE, req |-> 0, image |-> None,
     html |-> <<"<p>", "Hello! I'm your AI shopping assistant. How can I help you today?",
                "</p>", "<p class=\"small text-muted\">",
                "Try asking about products, checking order status, or getting recommendations!",
                "</p>">>]

\* a div.message with the given role and content
Message(role, html, image) ==
    [role |-> role, typing |-> FALSE, req |-> 0, image |-> image, html |-> html]

\* the div#typing-indicator.message.bot.typing made for fetch number id
TypingIndicator(id) ==
    [role |-> "bot", typing |-> TRUE, req |-> id, image |-> None,
     html |-> <<"<div class=\"typing-indicator\">">>]

addMessageToChat(c, role, message) ==
    Append(c, Message(role, Para(nl2br(message)), None))

showTypingIndicator(c, id) == Append(c, TypingIndicator(id))

\* document.getElementById('typing-indicator'): the first one in document order
FirstTyping(c) ==
    LET at == {i \in 1..Len(c) : c[i].typing}
    IN  IF at = {} THEN 0 ELSE CHOOSE i \in at : \A j \in at : i <= j

removeTypingIndicator(c) ==
    LET i == FirstTyping(c)
    IN  IF i = 0 THEN c ELSE SubSeq(c, 1, i - 1) \o SubSeq(c, i + 1, Len(c))

-----------------------------------------------------------------------------
(* formatMessageWithLinks: the two regular-expression passes *)

AP == "'"

Quotes == {Q, AP}

UpperCase == <<"A", "B", "C", "D", "E", "F", "G", "H", "I", "J", "K", "L", "M", "N", "O", "P", "Q", "R", "S", "T", "U", "V", "W", "X", "Y", "Z">>

LowerCase == <<"a", "b", "c", "d", "e", "f", "g", "h", "i", "j", "k", "l", "m", "n", "o", "p", "q", "r", "s", "t", "u", "v", "w", "x", "y", "z">>

Digits == {"0", "1", "2", "3", "4", "5", "6", "7", "8", "9"}

Range(f) == {f[i] : i \in DOMAIN f}

\* \w
WordChars == Range(UpperCase) \cup Range(LowerCase) \cup Digits \cup {"_"}

\* the i flag: letters compare by their lower-case form
toLowerCase(s) ==
    [i \in 1..Len(s) |->
        IF s[i] \in Range(UpperCase)
        THEN LowerCase[CHOOSE k \in 1..Len(UpperCase) : UpperCase[k] = s[i]]
        ELSE s[i]]

Contains(s, k) ==
    \E i \in 1..(Len(s) - Len(k) + 1) : SubSeq(s, i, i + Len(k) - 1) = k

\* /phone|camera|laptop|headphone|speaker|watch|tablet|TV|monitor|keyboard|mouse|book/i
Keywords ==
    {<<"p", "h", "o", "n", "e">>,
     <<"c", "a", "m", "e", "r", "a">>,
     <<"l", "a", "p", "t", "o", "p">>,
     <<"h", "e", "a", "d", "p", "h", "o", "n", "e">>,
     <<"s", "p", "e", "a", "k", "e", "r">>,
     <<"w", "a", "t", "c", "h">>,
     <<"t", "a", "b", "l", "e", "t">>,
     <<"t", "v">>,
     <<"m", "o", "n", "i", "t", "o", "r">>,
     <<"k", "e", "y", "b", "o", "a", "r", "d">>,
     <<"m", "o", "u", "s", "e">>,
     <<"b", "o", "o", "k">>}

LooksLikeProduct(p2) == \E k \in Keywords : Contains(toLowerCase(p2), k)

\* characters encodeURIComponent leaves alone
Unreserved ==
    WordChars \cup {"-", ".", "!", "~", "*", AP, "(", ")"}

\* encodeURIComponent of one character, or of one markup token of Anchor
EncodeOne(c) ==
    CASE c \in Unreserved -> <<c>>
      [] c = SP -> <<"%", "2", "0">>
      [] c = NL -> <<"%", "0", "A">>
      [] c = "\t" -> <<"%", "0", "9">>
      [] c = Q -> <<"%", "2", "2">>
      [] c = "<a href=" -> <<"%3Ca%20href%3D">>
      [] c = "https://www.amazon.com/s?k=" -> <<"https%3A%2F%2Fwww.amazon.com%2Fs%3Fk%3D">>
      [] c = " target=" -> <<"%20target%3D">>
      [] c = "_blank" -> <<"_blank">>
      [] c = " class=" -> <<"%20class%3D">>
      [] c = "product-link" -> <<"product-link">>
      [] c = ">" -> <<"%", "3", "E">>
      [] c = "</a>" -> <<"%3C%2Fa%3E">>
      [] OTHER -> <<"%", c>>

RECURSIVE encodeURIComponent(_)
encodeURIComponent(s) ==
    IF s = <<>> THEN <<>> ELSE EncodeOne(Head(s)) \o encodeURIComponent(Tail(s))

\* `<a href="https://www.amazon.com/s?k=${searchQuery}" target="_blank" class="product-link">${text}</a>`
Anchor(searchQuery, text) ==
    <<"<a href=", Q, "https://www.amazon.com/s?k=">> \o searchQuery
        \o <<Q, " target=", Q, "_blank", Q, " class=", Q, "product-link", Q, ">">>
        \o text \o <<"</a>">>

\* number of leading elements of s that are no quote
RECURSIVE UnquotedRun(_)
UnquotedRun(s) ==
    IF s = <<>> \/ Head(s) \in Quotes THEN 0 ELSE 1 + UnquotedRun(Tail(s))

\* pass 1: .replace(/(["'])([^"']+?)(["'])/g, ...)
RECURSIVE LinkQuoted(_)
LinkQuoted(s) ==
    IF s = <<>> THEN <<>>
    ELSE LET n == UnquotedRun(Tail(s))
         IN  IF Head(s) \in Quotes /\ n >= 1 /\ n + 2 <= Len(s)
             THEN LET p2 == SubSeq(s, 2, n + 1)
                      rest == SubSeq(s, n + 3, Len(s))
                  IN  (IF LooksLikeProduct(p2)
                       THEN <<s[1]>> \o Anchor(encodeURIComponent(p2), p2) \o <<s[n + 2]>>
                       ELSE SubSeq(s, 1, n + 2))
                      \o LinkQuoted(rest)
             ELSE <<Head(s)>> \o LinkQuoted(Tail(s))

\* (the |a |an )
Articles == <<<<"t", "h", "e", SP>>, <<"a", SP>>, <<"a", "n", SP>>>>

\* ( product| device| gadget| item)
Suffixes ==
    {<<SP, "p", "r", "o", "d", "u", "c", "t">>, <<SP, "d", "e", "v", "i", "c", "e">>,
     <<SP, "g", "a", "d", "g", "e", "t">>, <<SP, "i", "t", "e", "m">>}

IsWordAt(s, k) == k \in 1..Len(s) /\ s[k] \in WordChars

\* \b between positions i - 1 and i
WordBoundary(s, i) == IsWordAt(s, i - 1) # IsWordAt(s, i)

\* the literal lit (lower case) stands at position i, ignoring case
LiteralAt(s, i, lit) ==
    /\ i + Len(lit) - 1 <= Len(s)
    /\ toLowerCase(SubSeq(s, i, i + Len(lit) - 1)) = lit

\* lengths n of ([\w\s]+?) from position j that let the suffix and the final \b match
ProductLengths(s, j) ==
    {n \in 1..(Len(s) - j + 1) :
        /\ \A k \in j..(j + n - 1) : s[k] \in WordChars \cup Whitespace
        /\ \E suf \in Suffixes :
              /\ LiteralAt(s, j + n, suf)
              /\ WordBoundary(s, j + n + Len(suf))}

\* the article lengths the regular expression tries at position i, in its order
ArticleLengths(s, i) ==
    SelectSeq(<<Len(Articles[1]), Len(Articles[2]), Len(Articles[3]), 0>>,
              LAMBDA n : n = 0 \/ \E a \in 1..3 : Len(Articles[a]) = n /\ LiteralAt(s, i, Articles[a]))

Least(S) == CHOOSE x \in S : \A y \in S : x <= y

\* the match of pass 2 from position i, with article s[i..j-1], product s[j..j+n-1]
\* and the suffix suf after it
MatchRecord(s, i, j, n, suf) ==
    [found |-> TRUE,
     article |-> SubSeq(s, i, j - 1),
     product |-> SubSeq(s, j, j + n - 1),
     suffix |-> SubSeq(s, j + n, j + n + Len(suf) - 1),
     end |-> j + n + Len(suf) - 1]

\* the product is the shortest one that lets the rest match (+? is lazy)
ShortestProduct(s, i, j, n) ==
    MatchRecord(s, i, j, n, CHOOSE x \in Suffixes : LiteralAt(s, j + n, x))

\* the article is the first one, in the order tried, after which a product matches
FirstArticle(s, i, arts, fits) ==
    IF ~WordBoundary(s, i) \/ fits = {} THEN [found |-> FALSE]
    ELSE ShortestProduct(s, i, i + arts[Least(fits)],
                         Least(ProductLengths(s, i + arts[Least(fits)])))

ArticleFits(s, i, arts) ==
    FirstArticle(s, i, arts,
                 {a \in 1..Len(arts) : ProductLengths(s, i + arts[a]) # {}})

\* the match of pass 2 that starts at position i, if there is one
NounMatch(s, i) == ArticleFits(s, i, ArticleLengths(s, i))

RECURSIVE LinkNounsFrom(_, _)

\* the replacement function of pass 2, and the scan going on after the match m
ReplaceNoun(s, i, m) ==
    IF m.found
    THEN (IF Len(m.product) > 3
          THEN m.article
               \o Anchor(encodeURIComponent(trim(m.product)), m.product)
               \o m.suffix
          ELSE SubSeq(s, i, m.end))
         \o LinkNounsFrom(s, m.end + 1)
    ELSE <<s[i]>> \o LinkNounsFrom(s, i + 1)

\* pass 2: .replace(/\b(the |a |an )?([\w\s]+?)( product| device| gadget| item)\b/gi, ...)
LinkNounsFrom(s, i) ==
    IF i > Len(s) THEN <<>> ELSE ReplaceNoun(s, i, NounMatch(s, i))

LinkNouns(s) == LinkNounsFrom(s, 1)

formatMessageWithLinks(message) == LinkNouns(LinkQuoted(message))

-----------------------------------------------------------------------------
(* Replies of the backend: the inputs of the promise chains *)

\* product.description.substring(0, 100)
DescriptionLimit == 100

P1 == [id |-> <<"p", "1">>, name |-> <<"T", "V">>, description |-> Some(<<"b", "i", "g">>)]

P2 == [id |-> <<"p", "2">>, name |-> <<"p", "e", "n">>, description |-> Some(<<"r", "e", "d">>)]

\* a record of the backend that lacks the description field
PNoDescription == [id |-> <<"p", "3">>, name |-> <<"c", "u", "p">>, description |-> None]

\* the data object of a reply: {products?, product?, order?}
Payload(ps, p, o) == [products |-> ps, product |-> p, order |-> o]

\* data objects with each way of populating the fields that the precedence tells
\* apart, and one whose list holds a record without description
Payloads ==
    {Payload(Some(<<P1, P2>>), Some(P2), Some("o1")),
     Payload(Some(<<P1, P2>>), None, None),
     Payload(Some(<<>>), Some(P2), Some("o1")),
     Payload(None, Some(P2), None),
     Payload(None, None, Some("o1")),
     Payload(Some(<<>>), None, None),
     Payload(None, None, None),
     Payload(Some(<<P1, PNoDescription>>), None, None)}

ReplyTexts == {<<Q, "T", "V", Q>>}

\* the JSON body of a 2xx reply: {message?, data?}
Bodies ==
    {[message |-> Some(t), data |-> d] :
        t \in ReplyTexts, d \in {None} \cup {Some(x) : x \in Payloads}}
    \cup {[message |-> None, data |-> None]}

\* how a fetch settles: the transport fails, the status is not 2xx, or a 2xx JSON body
Responses ==
    {[kind |-> "transport", body |-> None], [kind |-> "non2xx", body |-> None]}
        \cup {[kind |-> "ok", body |-> Some(b)] : b \in Bodies}

-----------------------------------------------------------------------------
(* The product carousel.  car is [shown, cards, listeners]; the operators  *)
(* add threw: whether the call ended by throwing.                          *)

\* `${product.description.substring(0, 100)}${product.description.length > 100 ? '...' : ''}`
Truncate(d) ==
    IF Len(d) > DescriptionLimit
    THEN SubSeq(d, 1, DescriptionLimit) \o <<".", ".", ".">>
    ELSE d

\* the card displayProducts builds for one product record
Card(product) ==
    [id |-> product.id, name |-> product.name,
     description |-> Truncate(The(product.description))]

displayProducts(car, products) ==
    LET bad == {k \in 1..Len(products) : products[k].description = None}
    IN  IF bad = {}
        THEN [shown |-> TRUE,
              cards |-> [k \in 1..Len(products) |-> Card(products[k])],
              listeners |-> TRUE,
              threw |-> FALSE]
        ELSE \* product.description.substring throws inside forEach: the cards
             \* before it are in the carousel, nothing after the loop has run
             LET first == CHOOSE k \in bad : \A j \in bad : k <= j
             IN  [shown |-> car.shown,
                  cards |-> [k \in 1..(first - 1) |-> Card(products[k])],
                  listeners |-> FALSE,
                  threw |-> TRUE]

\* a handleResponseData that looks at product before products
handleResponseDataProductFirst(car, data) ==
    IF data.product # None
    THEN displayProducts(car, <<The(data.product)>>)
    ELSE IF data.products # None /\ Len(The(data.products)) > 0
    THEN displayProducts(car, The(data.products))
    ELSE IF data.order # None
    THEN [shown |-> car.shown, cards |-> car.cards, listeners |-> car.listeners,
          threw |-> FALSE]
    ELSE [shown |-> FALSE, cards |-> car.cards, listeners |-> car.listeners,
          threw |-> FALSE]

handleResponseData(car, data) ==
    IF data.products # None /\ Len(The(data.products)) > 0
    THEN displayProducts(car, The(data.products))
    ELSE IF data.product # None
    THEN displayProducts(car, <<The(data.product)>>)
    ELSE IF data.order # None
    THEN [shown |-> car.shown, cards |-> car.cards, listeners |-> car.listeners,
          threw |-> FALSE]
    ELSE [shown |-> FALSE, cards |-> car.cards, listeners |-> car.listeners,
          threw |-> FALSE]

-----------------------------------------------------------------------------
(* The promise chains of sendMessage and sendFileToBackend.  Each operator *)
(* maps the chat and the carousel to what the handler leaves.              *)

\* formatMessageWithLinks on the reply texts of the model, computed once
Linkified == [m \in ReplyTexts |-> formatMessageWithLinks(m)]

\* sendMessage: .then(data => ...)
sendMessageThen(c, car, data) ==
    LET c1 == removeTypingIndicator(c)
    IN  IF data.message = None
        THEN \* formatMessageWithLinks(undefined) throws
             [chat |-> c1, shown |-> car.shown, cards |-> car.cards,
              listeners |-> car.listeners, threw |-> TRUE]
        ELSE LET c2 == addMessageToChat(c1, "bot", Linkified[The(data.message)])
             IN  IF data.data # None
                 THEN [chat |-> c2] @@ handleResponseData(car, The(data.data))
                 ELSE [chat |-> c2, shown |-> car.shown, cards |-> car.cards,
                       listeners |-> car.listeners, threw |-> FALSE]

\* sendFileToBackend: .then(data => ...)
sendFileThen(c, car, data) ==
    LET c1 == removeTypingIndicator(c)
    IN  IF data.message = None
        THEN \* addMessageToChat('bot', undefined) throws at message.replace
             [chat |-> c1, shown |-> car.shown, cards |-> car.cards,
              listeners |-> car.listeners, threw |-> TRUE]
        ELSE LET c2 == addMessageToChat(c1, "bot", The(data.message))
             IN  IF data.data # None
                 THEN [chat |-> c2] @@ handleResponseData(car, The(data.data))
                 ELSE [chat |-> c2, shown |-> car.shown, cards |-> car.cards,
                       listeners |-> car.listeners, threw |-> FALSE]

\* a .catch of sendMessage that appends the apology and leaves the indicator
sendMessageCatchKeepsIndicator(c) == addMessageToChat(c, "bot", PlainApology)

\* sendMessage: .catch(error => ...)
sendMessageCatch(c) ==
    addMessageToChat(removeTypingIndicator(c), "bot", PlainApology)

\* sendFileToBackend: .catch(error => ...)
sendFileCatch(c) ==
    addMessageToChat(removeTypingIndicator(c), "bot", FileApology)

\* the whole chain of one fetch: what it leaves when the fetch settles with resp
settle(c, car, endpoint, resp) ==
    IF resp.kind # "ok"
    THEN [chat |-> IF endpoint = PlainEndpoint THEN sendMessageCatch(c) ELSE sendFileCatch(c),
          shown |-> car.shown, cards |-> car.cards, listeners |-> car.listeners]
    ELSE LET t == IF endpoint = PlainEndpoint
                  THEN sendMessageThen(c, car, The(resp.body))
                  ELSE sendFileThen(c, car, The(resp.body))
         IN  [chat |-> IF ~t.threw THEN t.chat
                       ELSE IF endpoint = PlainEndpoint THEN sendMessageCatch(t.chat)
                       ELSE sendFileCatch(t.chat),
              shown |-> t.shown, cards |-> t.cards, listeners |-> t.listeners]

-----------------------------------------------------------------------------
(* The attachment slot and its preview *)

\* the drafts the user types
DraftTexts == {<<SP>>, <<SP, "h", "i", SP>>}

Tokens == {"session_a"}

\* the state removeAttachment works on
Attachment ==
    [currentAttachment |-> currentAttachment,
     fileUploadValue |-> fileUploadValue,
     filePreviewContainerShown |-> filePreviewContainerShown,
     imagePreviewShown |-> imagePreviewShown,
     imagePreviewSrc |-> imagePreviewSrc,
     imagePreviewStale |-> imagePreviewStale,
     previewReads |-> previewReads,
     userInput |-> userInput]

SetAttachment(a) ==
    /\ currentAttachment' = a.currentAttachment
    /\ fileUploadValue' = a.fileUploadValue
    /\ filePreviewContainerShown' = a.filePreviewContainerShown
    /\ imagePreviewShown' = a.imagePreviewShown
    /\ imagePreviewSrc' = a.imagePreviewSrc
    /\ imagePreviewStale' = a.imagePreviewStale
    /\ previewReads' = a.previewReads
    /\ userInput' = a.userInput

\* history: every read still pending was started before this removeAttachment()
Superseded(reads) ==
    LET marked == {[r EXCEPT !.cleared = TRUE] : r \in BagToSet(reads)}
    IN  [r \in marked |->
            CopiesIn(r, reads) + CopiesIn([r EXCEPT !.cleared = FALSE], reads)]

\* a removeAttachment that returns at once when nothing is staged
removeAttachmentIfStaged(a) ==
    IF a.currentAttachment = NULL THEN a
    ELSE [a EXCEPT !.currentAttachment = NULL,
                   !.fileUploadValue = NULL,
                   !.filePreviewContainerShown = FALSE,
                   !.imagePreviewShown = FALSE,
                   !.userInput = <<>>,
                   !.previewReads = Superseded(a.previewReads)]

removeAttachment(a) ==
    [a EXCEPT !.currentAttachment = NULL,
              !.fileUploadValue = NULL,
              !.filePreviewContainerShown = FALSE,
              !.imagePreviewShown = FALSE,
              !.userInput = <<>>,
              !.previewReads = Superseded(a.previewReads)]

\* the carousel as the promise chains see it
Carousel ==
    [shown |-> carouselShown, cards |-> productCarousel, listeners |-> infoBtnListeners]

\* the preview the user sees: #image-preview lies inside #file-preview-container
PreviewDisplayed == filePreviewContainerShown /\ imagePreviewShown

\* one more user gesture
Gesture == gestures < MaxGestures /\ gestures' = gestures + 1

\* no price function has been called
NoCall == [fn |-> "none", args |-> <<>>, result |-> None]

\* the linkifier has not run
NoLink == [fn |-> "none", input |-> <<>>, passes |-> 0, result |-> <<>>]

-----------------------------------------------------------------------------
(* Handlers *)

\* the page as DOMContentLoaded leaves it
PageLoaded ==
    /\ sessionId \in Tokens
    /\ userInput = <<>>
    /\ currentAttachment = NULL
    /\ fileUploadValue = NULL
    /\ filePreviewContainerShown = FALSE
    /\ imagePreviewShown = FALSE
    /\ imagePreviewSrc = <<>>
    /\ imagePreviewStale = FALSE
    /\ previewReads = EmptyBag
    /\ sendReads = EmptyBag
    /\ chat = <<Welcome>>
    /\ inFlight = {}
    /\ requestCount = 0
    /\ carouselShown = FALSE
    /\ productCarousel = <<>>
    /\ infoBtnListeners = FALSE
    /\ lastAlert = None
    /\ voiceStatusShown = FALSE
    /\ recognitions = EmptyBag
    /\ priceCall = NoCall
    /\ linkCall = NoLink
    /\ gestures = 0

\* the page in a browser that has speech recognition; the behaviours of Spec
\* leave the microphone button alone
Init == PageLoaded /\ speechSupported = TRUE

\* the user edits the draft in #user-input
TypeText(t) ==
    /\ Gesture
    /\ t # userInput
    /\ userInput' = t
    /\ UNCHANGED <<lastAlert, dictationVars, priceCall, linkCall>>
    /\ UNCHANGED <<sessionId, attachVars, sendReads, chat, inFlight, requestCount,
                   carouselVars>>

\* a fetch to /api/chat whose body leaves the session token out
PlainRequestWithoutSession(id, message) ==
    [id |-> id, endpoint |-> PlainEndpoint, message |-> message,
     session_id |-> NULL, file |-> None]

\* fetch('/api/chat', {method: 'POST', body: JSON.stringify({message, session_id})})
PlainRequest(id, message) ==
    [id |-> id, endpoint |-> PlainEndpoint, message |-> message,
     session_id |-> sessionId, file |-> None]

\* a fetch to /api/chat-with-file whose form leaves the session token out
FileRequestWithoutSession(id, message, file) ==
    [id |-> id, endpoint |-> FileEndpoint, message |-> message,
     session_id |-> NULL, file |-> Some(file)]

\* fetch('/api/chat-with-file', {method: 'POST', body: formData}); a file of
\* NULL is what formData.append('file', null) sends: the text "null", no bytes
FileRequest(id, message, file) ==
    [id |-> id, endpoint |-> FileEndpoint, message |-> message,
     session_id |-> sessionId, file |-> Some(file)]

\* sendMessageWithAttachment, called with a staged attachment and the draft input
sendMessageWithAttachment(input) ==
    LET message == IF trim(input) = <<>> THEN DefaultAttachmentMessage ELSE trim(input)
        read == [message |-> message, file |-> currentAttachment]
    IN  /\ sendReads' = sendReads (+) SetToBag({read})
        /\ SetAttachment(removeAttachment([Attachment EXCEPT !.userInput = <<>>]))
        /\ UNCHANGED <<lastAlert, dictationVars, priceCall, linkCall>>
        /\ UNCHANGED <<sessionId, chat, inFlight, requestCount, carouselVars>>

\* sendMessage returning at `if (!message) return;`
NothingToSend(input) ==
    /\ userInput' = input
    /\ UNCHANGED <<lastAlert, dictationVars, priceCall, linkCall>>
    /\ UNCHANGED <<sessionId, attachVars, sendReads, chat, inFlight, requestCount,
                   carouselVars>>

\* sendMessage from `addMessageToChat('user', message)` to the fetch call
sendText(input) ==
    /\ chat' = showTypingIndicator(addMessageToChat(chat, "user", trim(input)),
                                   requestCount + 1)
    /\ userInput' = <<>>
    /\ inFlight' = inFlight \cup {PlainRequest(requestCount + 1, trim(input))}
    /\ requestCount' = requestCount + 1
    /\ UNCHANGED <<lastAlert, dictationVars, priceCall, linkCall>>
    /\ UNCHANGED <<sessionId, attachVars, sendReads, carouselVars>>

\* a sendMessage that returns on a blank draft before it looks at the attachment
sendMessageTextFirst(input) ==
    IF trim(input) = <<>> THEN NothingToSend(input)
    ELSE IF currentAttachment # NULL THEN sendMessageWithAttachment(input)
    ELSE sendText(input)

\* sendMessage, with input the value of #user-input when the submit event fires
sendMessage(input) ==
    IF currentAttachment # NULL THEN sendMessageWithAttachment(input)
    ELSE IF trim(input) = <<>> THEN NothingToSend(input)
    ELSE sendText(input)

\* the submit event of #message-form
Submit == Gesture /\ sendMessage(userInput)

\* the click listener of the Details button of card k
DetailsClick(k) ==
    /\ Gesture
    /\ carouselShown
    /\ infoBtnListeners
    /\ k \in 1..Len(productCarousel)
    /\ sendMessage(DetailsDraft(productCarousel[k].id))

\* a clearChat that removes the welcome message with the rest
clearChatAll ==
    /\ chat' = <<>>
    /\ carouselShown' = FALSE
    /\ UNCHANGED <<lastAlert, dictationVars, priceCall, linkCall>>
    /\ UNCHANGED <<sessionId, userInput, attachVars, sendReads, inFlight, requestCount,
                   productCarousel, infoBtnListeners>>

clearChat ==
    /\ chat' = <<chat[1]>>
    /\ carouselShown' = FALSE
    /\ UNCHANGED <<lastAlert, dictationVars, priceCall, linkCall>>
    /\ UNCHANGED <<sessionId, userInput, attachVars, sendReads, inFlight, requestCount,
                   productCarousel, infoBtnListeners>>

\* the click on #clearChatBtn
ClearChatClick == Gesture /\ clearChat

\* a rejection that shows no alert
RejectFileSilently ==
    /\ fileUploadValue' = NULL
    /\ UNCHANGED <<lastAlert, dictationVars, priceCall, linkCall>>
    /\ UNCHANGED <<sessionId, userInput, currentAttachment, filePreviewContainerShown,
                   imagePreviewShown, imagePreviewSrc, imagePreviewStale, previewReads,
                   sendReads, chat, inFlight, requestCount, carouselVars>>

\* a rejection that also drops what was staged, as removeAttachment() does
RejectFileAndClear ==
    /\ lastAlert' = Some(UnsupportedTypeNotice)
    /\ SetAttachment(removeAttachment(Attachment))
    /\ UNCHANGED <<dictationVars, priceCall, linkCall>>
    /\ UNCHANGED <<sessionId, sendReads, chat, inFlight, requestCount, carouselVars>>

\* handleFileUpload on a file that is not an image: alert, reset the file input, return
RejectFile ==
    /\ fileUploadValue' = NULL
    /\ lastAlert' = Some(UnsupportedTypeNotice)
    /\ UNCHANGED <<dictationVars, priceCall, linkCall>>
    /\ UNCHANGED <<sessionId, userInput, currentAttachment, filePreviewContainerShown,
                   imagePreviewShown, imagePreviewSrc, imagePreviewStale, previewReads,
                   sendReads, chat, inFlight, requestCount, carouselVars>>

\* handleFileUpload, with file the files[0] of the change event (NULL: none)
handleFileUpload(file) ==
    IF file = NULL
    THEN /\ fileUploadValue' = NULL
         /\ UNCHANGED <<lastAlert, dictationVars, priceCall, linkCall>>
         /\ UNCHANGED <<sessionId, userInput, currentAttachment, filePreviewContainerShown,
                        imagePreviewShown, imagePreviewSrc, imagePreviewStale, previewReads,
                        sendReads, chat, inFlight, requestCount, carouselVars>>
    ELSE IF ~IsImage(file) THEN RejectFile
    ELSE /\ currentAttachment' = file
         /\ fileUploadValue' = file
         /\ previewReads' = previewReads (+) SetToBag({[file |-> file, cleared |-> FALSE]})
         /\ filePreviewContainerShown' = TRUE
         /\ userInput' = StagedDraft(file)
         /\ UNCHANGED <<lastAlert, dictationVars, priceCall, linkCall>>
         /\ UNCHANGED <<sessionId, imagePreviewShown, imagePreviewSrc, imagePreviewStale,
                        sendReads, chat, inFlight, requestCount, carouselVars>>

\* the change event of #file-upload: the selection becomes another file, or none
ChooseFile(file) ==
    /\ Gesture
    /\ file # fileUploadValue
    /\ handleFileUpload(file)

\* the click on #remove-file, a button inside #file-preview-container
RemoveFileClick ==
    /\ Gesture
    /\ filePreviewContainerShown
    /\ SetAttachment(removeAttachment(Attachment))
    /\ UNCHANGED <<lastAlert, dictationVars, priceCall, linkCall>>
    /\ UNCHANGED <<sessionId, sendReads, chat, inFlight, requestCount, carouselVars>>

\* reader.onload of handleFileUpload
PreviewLoaded(read) ==
    /\ BagIn(read, previewReads)
    /\ previewReads' = previewReads (-) SetToBag({read})
    /\ imagePreviewSrc' = DataURL(read.file)
    /\ imagePreviewShown' = TRUE
    /\ imagePreviewStale' = read.cleared
    /\ UNCHANGED gestures
    /\ UNCHANGED <<lastAlert, dictationVars, priceCall, linkCall>>
    /\ UNCHANGED <<sessionId, userInput, currentAttachment, fileUploadValue,
                   filePreviewContainerShown, sendReads, chat, inFlight, requestCount,
                   carouselVars>>

\* sendFileToBackend(message, file), up to the fetch call
sendFileToBackend(c, message, file) ==
    LET id == requestCount + 1
    IN  /\ chat' = showTypingIndicator(c, id)
        /\ inFlight' = inFlight \cup {FileRequest(id, message, file)}
        /\ requestCount' = id

\* reader.onload of sendMessageWithAttachment
AttachmentLoaded(read) ==
    /\ BagIn(read, sendReads)
    /\ sendReads' = sendReads (-) SetToBag({read})
    /\ sendFileToBackend(
           Append(chat, Message("user", Para(read.message), Some(DataURL(read.file)))),
           read.message, currentAttachment)
    /\ UNCHANGED <<lastAlert, dictationVars, priceCall, linkCall>>
    /\ UNCHANGED <<sessionId, userInput, attachVars, carouselVars, gestures>>

\* the promise chain of request settles with resp
Settle(request, resp) ==
    LET after == settle(chat, Carousel, request.endpoint, resp)
    IN  /\ request \in inFlight
        /\ inFlight' = inFlight \ {request}
        /\ chat' = after.chat
        /\ carouselShown' = after.shown
        /\ productCarousel' = after.cards
        /\ infoBtnListeners' = after.listeners
        /\ UNCHANGED <<lastAlert, dictationVars, priceCall, linkCall>>
        /\ UNCHANGED <<sessionId, userInput, attachVars, sendReads, requestCount, gestures>>

-----------------------------------------------------------------------------
(* Dictation.  A SpeechRecognition object that has started is "listening"  *)
(* until it delivers its result or an error, then "closing" until its end  *)
(* event, which the platform delivers last.                                *)

\* event.results[0][0].transcript: the final transcripts the platform delivers
Transcripts == {<<"t", "v">>}

\* toggleVoiceInput without the capability: a return with no alert
NoRecognitionSilently ==
    /\ UNCHANGED <<lastAlert, dictationVars, priceCall, linkCall>>
    /\ UNCHANGED <<sessionId, userInput, attachVars, sendReads, chat, inFlight,
                   requestCount, carouselVars>>

\* toggleVoiceInput without the capability: alert and return
NoRecognition ==
    /\ lastAlert' = Some(NoSpeechNotice)
    /\ UNCHANGED <<dictationVars, priceCall, linkCall>>
    /\ UNCHANGED <<sessionId, userInput, attachVars, sendReads, chat, inFlight,
                   requestCount, carouselVars>>

\* toggleVoiceInput with the capability: a new recognition, the status, start()
StartRecognition ==
    /\ voiceStatusShown' = TRUE
    /\ recognitions' = recognitions (+) SetToBag({"listening"})
    /\ UNCHANGED <<lastAlert, speechSupported, priceCall, linkCall>>
    /\ UNCHANGED <<sessionId, userInput, attachVars, sendReads, chat, inFlight,
                   requestCount, carouselVars>>

toggleVoiceInput == IF ~speechSupported THEN NoRecognition ELSE StartRecognition

\* the click on #voice-input-btn
VoiceClick == Gesture /\ toggleVoiceInput

\* recognition.onresult, with the transcript of the event
onresult(transcript) ==
    /\ BagIn("listening", recognitions)
    /\ recognitions' = (recognitions (-) SetToBag({"listening"})) (+) SetToBag({"closing"})
    /\ userInput' = transcript
    /\ voiceStatusShown' = FALSE
    /\ UNCHANGED <<lastAlert, speechSupported, priceCall, linkCall, gestures>>
    /\ UNCHANGED <<sessionId, attachVars, sendReads, chat, inFlight, requestCount,
                   carouselVars>>

\* a recognition.onerror that leaves the listening status as it is
onerrorKeepsStatus ==
    /\ BagIn("listening", recognitions)
    /\ recognitions' = (recognitions (-) SetToBag({"listening"})) (+) SetToBag({"closing"})
    /\ UNCHANGED <<lastAlert, speechSupported, voiceStatusShown, priceCall, linkCall, gestures>>
    /\ UNCHANGED <<sessionId, userInput, attachVars, sendReads, chat, inFlight,
                   requestCount, carouselVars>>

\* recognition.onerror
onerror ==
    /\ BagIn("listening", recognitions)
    /\ recognitions' = (recognitions (-) SetToBag({"listening"})) (+) SetToBag({"closing"})
    /\ voiceStatusShown' = FALSE
    /\ UNCHANGED <<lastAlert, speechSupported, priceCall, linkCall, gestures>>
    /\ UNCHANGED <<sessionId, userInput, attachVars, sendReads, chat, inFlight,
                   requestCount, carouselVars>>

\* recognition.onend of a recognition in the given phase
onend(phase) ==
    /\ BagIn(phase, recognitions)
    /\ recognitions' = recognitions (-) SetToBag({phase})
    /\ voiceStatusShown' = FALSE
    /\ UNCHANGED <<lastAlert, speechSupported, priceCall, linkCall, gestures>>
    /\ UNCHANGED <<sessionId, userInput, attachVars, sendReads, chat, inFlight,
                   requestCount, carouselVars>>

\* an event of a recognition that has started
RecognitionEvent ==
    \/ \E transcript \in Transcripts : onresult(transcript)
    \/ onerror
    \/ \E phase \in {"listening", "closing"} : onend(phase)

Next ==
    \/ \E t \in DraftTexts : TypeText(t)
    \/ Submit
    \/ \E k \in 1..2 : DetailsClick(k)
    \/ ClearChatClick
    \/ \E file \in Files \cup {NULL} : ChooseFile(file)
    \/ RemoveFileClick
    \/ \E read \in BagToSet(previewReads) : PreviewLoaded(read)
    \/ \E read \in BagToSet(sendReads) : AttachmentLoaded(read)
    \/ \E request \in inFlight : \E resp \in Responses : Settle(request, resp)

Spec == Init /\ [][Next]_vars

-----------------------------------------------------------------------------
(* The behaviours of the microphone button: dictation into the draft and   *)
(* the submits of the draft, in a browser with or without speech           *)
(* recognition.  A recognition that has started delivers its events: the   *)
(* platform ends every recognition.                                        *)

VoiceInit == PageLoaded /\ speechSupported \in BOOLEAN

VoiceNext ==
    \/ VoiceClick
    \/ RecognitionEvent
    \/ \E t \in DraftTexts : TypeText(t)
    \/ Submit

VoiceSpec == VoiceInit /\ [][VoiceNext]_vars /\ WF_vars(RecognitionEvent)

-----------------------------------------------------------------------------
(* Price functions.  A value of the reply is a string (its characters), a   *)
(* number (in thousandths, the precision of the prices below) or anything   *)
(* else (null, undefined, an object).  A number the functions compute is    *)
(* NaN or a count of thousandths.                                           *)

JSString(s) == [type |-> "string", s |-> s, m |-> 0]

JSNumber(m) == [type |-> "number", s |-> <<>>, m |-> m]

JSNull == [type |-> "object", s |-> <<>>, m |-> 0]

NaN == None

\* the digits in the order of their values
DigitChars == <<"0", "1", "2", "3", "4", "5", "6", "7", "8", "9">>

DigitVal(ch) == CHOOSE d \in 0..9 : DigitChars[d + 1] = ch

\* the value of a run of digits
RECURSIVE Decimal(_)
Decimal(ds) ==
    IF ds = <<>> THEN 0
    ELSE 10 * Decimal(SubSeq(ds, 1, Len(ds) - 1)) + DigitVal(ds[Len(ds)])

\* the digits of a natural number
RECURSIVE DecimalString(_)
DecimalString(n) ==
    IF n < 10 THEN <<DigitChars[n + 1]>>
    ELSE DecimalString(n \div 10) \o <<DigitChars[(n % 10) + 1]>>

\* the longest run of digits a text starts with
DigitsPrefix(s) ==
    LET n == CHOOSE k \in 0..Len(s) :
                 /\ \A i \in 1..k : s[i] \in Digits
                 /\ k = Len(s) \/ s[k + 1] \notin Digits
    IN  SubSeq(s, 1, n)

\* priceString.replace(/[^0-9.]/g, '')
StripNonNumeric(s) == SelectSeq(s, LAMBDA ch : ch \in Digits \cup {"."})

\* parseFloat of a text of digits and dots: the longest prefix that is a
\* decimal literal, NaN when that prefix has no digit; digits after the third
\* decimal are below the precision of the model
parseFloat(s) ==
    LET int == DigitsPrefix(s)
        rest == SubSeq(s, Len(int) + 1, Len(s))
        frac == IF rest # <<>> /\ rest[1] = "." THEN DigitsPrefix(Tail(rest)) ELSE <<>>
    IN  IF int = <<>> /\ frac = <<>> THEN NaN
        ELSE Some(1000 * Decimal(int) + Decimal(SubSeq(frac \o <<"0", "0", "0">>, 1, 3)))

\* Number.prototype.toFixed(2): "NaN" for NaN, else the sign and the magnitude
\* rounded to hundredths, with two decimals
toFixed2(x) ==
    IF x = NaN THEN <<"N", "a", "N">>
    ELSE LET m == The(x)
             h == ((IF m < 0 THEN -m ELSE m) + 5) \div 10
         IN  (IF m < 0 THEN <<"-">> ELSE <<>>)
                 \o DecimalString(h \div 100)
                 \o <<".", DigitChars[((h \div 10) % 10) + 1], DigitChars[(h % 10) + 1]>>

extractCurrentPrice(priceString) ==
    IF priceString.type = "string"
    THEN toFixed2(parseFloat(StripNonNumeric(priceString.s)))
    ELSE IF priceString.type = "number"
    THEN toFixed2(Some(priceString.m))
    ELSE <<"0", ".", "0", "0">>

\* the number calculateDiscount reads in a price: parseFloat of the stripped
\* string, the number itself, NaN for anything else
PriceNumber(price) ==
    IF price.type = "string" THEN parseFloat(StripNonNumeric(price.s))
    ELSE IF price.type = "number" THEN Some(price.m)
    ELSE NaN

\* Math.round((1 - (current / original)) * 100) for original > 0: the nearest
\* integer, the greater one of two
RoundedPercentOff(current, original) ==
    (200 * (original - current) + original) \div (2 * original)

calculateDiscount(currentPrice, originalPrice) ==
    LET current == PriceNumber(currentPrice)
        original == PriceNumber(originalPrice)
    IN  IF /\ current # NaN
           /\ original # NaN
           /\ The(original) > 0
           /\ The(current) < The(original)
        THEN RoundedPercentOff(The(current), The(original))
        ELSE 0

\* a field the product record does not have
JSUndefined == [type |-> "undefined", s |-> <<>>, m |-> 0]

\* the value converts to true: a string that is not empty, a number that is not 0
Truthy(v) ==
    \/ v.type = "string" /\ v.s # <<>>
    \/ v.type = "number" /\ v.m # 0

\* the decimals of a number of thousandths, without the zeros at the end
FractionText(f) ==
    IF f = 0 THEN <<>>
    ELSE IF f % 100 = 0 THEN <<".", DigitChars[(f \div 100) + 1]>>
    ELSE IF f % 10 = 0
    THEN <<".", DigitChars[(f \div 100) + 1], DigitChars[((f \div 10) % 10) + 1]>>
    ELSE <<".", DigitChars[(f \div 100) + 1], DigitChars[((f \div 10) % 10) + 1],
           DigitChars[(f % 10) + 1]>>

\* `${value}`: the string itself, the decimal text of a number, the name of null
\* and undefined
TemplateText(v) ==
    IF v.type = "string" THEN v.s
    ELSE IF v.type = "number"
    THEN (IF v.m < 0 THEN <<"-">> ELSE <<>>)
             \o DecimalString((IF v.m < 0 THEN -v.m ELSE v.m) \div 1000)
             \o FractionText((IF v.m < 0 THEN -v.m ELSE v.m) % 1000)
    ELSE IF v.type = "undefined" THEN <<"undefined">>
    ELSE <<"null">>

\* the badge alone: `<span class="badge bg-primary">${product.price}</span>`
PlainView(price) ==
    [kind |-> "plain", badge |-> TemplateText(price), discount |-> None,
     strikeout |-> None]

\* the sale badge with `-${discount}%` and the struck-through original price
DiscountedView(price, original_price) ==
    [kind |-> "discounted",
     badge |-> TemplateText(price),
     discount |-> Some(calculateDiscount(price, original_price)),
     strikeout |-> Some(IF original_price.type = "string" THEN original_price.s
                        ELSE <<"$">> \o toFixed2(PriceNumber(original_price)))]

\* a formatPriceDisplay that does not compare original_price with price
formatPriceDisplayAnyOriginal(price, original_price) ==
    IF Truthy(original_price)
    THEN DiscountedView(price, original_price)
    ELSE PlainView(price)

\* formatPriceDisplay(product), with the price and original_price of product
formatPriceDisplay(price, original_price) ==
    IF Truthy(original_price) /\ original_price # price
    THEN DiscountedView(price, original_price)
    ELSE PlainView(price)

\* the prices a reply can carry: strings with currency symbols and
\* separators, strings without a number, numbers, and null
PriceValues ==
    { JSString(<<"$", "8", "0">>),
      JSString(<<"$", "1", "0", "0">>),
      JSString(<<"$", "1", ",", "2", "9", "9", ".", "9", "9">>),
      JSString(<<"4", "9", ".", "5", SP, "U", "S", "D">>),
      JSString(<<"$", ".", "5">>),
      JSString(<<"1", ".", "2", ".", "3">>),
      JSString(<<"f", "r", "e", "e">>),
      JSString(<<>>),
      JSNumber(80000),
      JSNumber(100000),
      JSNumber(19999),
      JSNumber(0),
      JSNumber(-50000),
      JSNull }

\* displayProducts calls extractCurrentPrice(product.price)
CallExtractCurrentPrice(price) ==
    /\ priceCall' = [fn |-> "extractCurrentPrice", args |-> <<price>>,
                     result |-> Some(extractCurrentPrice(price))]
    /\ UNCHANGED <<sessionId, userInput, attachVars, sendReads, chat, inFlight,
                   requestCount, carouselVars, lastAlert, dictationVars, linkCall, gestures>>

\* formatPriceDisplay calls calculateDiscount(product.price, product.original_price)
CallCalculateDiscount(currentPrice, originalPrice) ==
    /\ priceCall' = [fn |-> "calculateDiscount", args |-> <<currentPrice, originalPrice>>,
                     result |-> Some(calculateDiscount(currentPrice, originalPrice))]
    /\ UNCHANGED <<sessionId, userInput, attachVars, sendReads, chat, inFlight,
                   requestCount, carouselVars, lastAlert, dictationVars, linkCall, gestures>>

\* displayProducts calls formatPriceDisplay(product)
CallFormatPriceDisplay(price, original_price) ==
    /\ priceCall' = [fn |-> "formatPriceDisplay", args |-> <<price, original_price>>,
                     result |-> Some(formatPriceDisplay(price, original_price))]
    /\ UNCHANGED <<sessionId, userInput, attachVars, sendReads, chat, inFlight,
                   requestCount, carouselVars, lastAlert, dictationVars, linkCall, gestures>>

PriceNext ==
    \/ \E price \in PriceValues : CallExtractCurrentPrice(price)
    \/ \E currentPrice, originalPrice \in PriceValues :
           CallCalculateDiscount(currentPrice, originalPrice)
    \/ \E price \in PriceValues : \E original_price \in PriceValues \cup {JSUndefined} :
           CallFormatPriceDisplay(price, original_price)

PriceSpec == Init /\ [][PriceNext]_vars

-----------------------------------------------------------------------------
(* Runs of the linkifier on the texts a reply can hold: its quote pass     *)
(* alone, the quote pass on its own output, and formatMessageWithLinks.    *)

\* the pieces the reply texts are made of: product mentions in quotes, a
\* quoted mention that ends in a product noun, a noun span with its article,
\* a quoted word that is no product, plain words, and a quote left open
LinkSegments ==
    { <<Q, "T", "V", Q>>,
      <<AP, "b", "i", "g", SP, "T", "V", SP, "i", "t", "e", "m", AP>>,
      <<"a", SP, "b", "l", "u", "e", SP, "i", "t", "e", "m">>,
      <<AP, "p", "e", "n", AP>>,
      <<SP, "o", "k", SP>>,
      <<Q, "T", "V">> }

LinkTexts == {a \o b : a, b \in LinkSegments \cup {<<>>}}

\* the passes on the texts of the model, computed once
QuotedOnce == [t \in LinkTexts |-> LinkQuoted(t)]

QuotedTwice == [t \in LinkTexts |-> LinkQuoted(QuotedOnce[t])]

Formatted == [t \in LinkTexts |-> formatMessageWithLinks(t)]

\* the quote pass of formatMessageWithLinks runs on a text
CallLinkQuoted(text) ==
    /\ linkCall' = [fn |-> "LinkQuoted", input |-> text, passes |-> 1,
                    result |-> QuotedOnce[text]]
    /\ UNCHANGED <<sessionId, userInput, attachVars, sendReads, chat, inFlight,
                   requestCount, carouselVars, lastAlert, dictationVars, priceCall,
                   gestures>>

\* the quote pass runs on the text it returned
ReapplyLinkQuoted ==
    /\ linkCall.fn = "LinkQuoted"
    /\ linkCall.passes = 1
    /\ linkCall' = [linkCall EXCEPT !.passes = 2, !.result = QuotedTwice[linkCall.input]]
    /\ UNCHANGED <<sessionId, userInput, attachVars, sendReads, chat, inFlight,
                   requestCount, carouselVars, lastAlert, dictationVars, priceCall,
                   gestures>>

\* sendMessage calls formatMessageWithLinks(data.message)
CallFormatMessageWithLinks(text) ==
    /\ linkCall' = [fn |-> "formatMessageWithLinks", input |-> text, passes |-> 1,
                    result |-> Formatted[text]]
    /\ UNCHANGED <<sessionId, userInput, attachVars, sendReads, chat, inFlight,
                   requestCount, carouselVars, lastAlert, dictationVars, priceCall,
                   gestures>>

LinkNext ==
    \/ \E text \in LinkTexts : CallLinkQuoted(text)
    \/ ReapplyLinkQuoted
    \/ \E text \in LinkTexts : CallFormatMessageWithLinks(text)

LinkSpec == Init /\ [][LinkNext]_vars

-----------------------------------------------------------------------------
(* Typing indicator and requests in flight *)

\* the requests whose typing indicator is in the chat
IndicatorsShown == {chat[i].req : i \in {j \in 1..Len(chat) : chat[j].typing}}

\* C1: whatever the interleaving of submits, clearChat and settlements, the
\* typing indicator of a request is in the chat exactly while the request is in
\* flight: it is there from the submit until the request settles, and the
\* settlement of the request is what removes it.
C1_IndicatorWhileInFlight == IndicatorsShown = {r.id : r \in inFlight}

\* C2: at most one request is in flight at any time.
C2_AtMostOneInFlight == Cardinality(inFlight) <= 1

-----------------------------------------------------------------------------
(* Submitting *)

\* the requests the step issues
Issued == inFlight' \ inFlight

\* C3: a submit with a draft that is not blank and no attachment staged issues
\* exactly one request, to /api/chat, that carries the draft without its
\* leading and trailing whitespace and the session token; it starts no
\* attachment submit.
C3_PlainSubmit ==
    [][(Submit /\ currentAttachment = NULL /\ trim(userInput) # <<>>) =>
          \E r \in Issued :
              /\ inFlight' = inFlight \cup {r}
              /\ r.endpoint = PlainEndpoint
              /\ r.file = None
              /\ r.message = trim(userInput)
              /\ r.message[1] \notin Whitespace
              /\ r.message[Len(r.message)] \notin Whitespace
              /\ r.session_id = sessionId
              /\ sendReads' = sendReads]_vars

\* a request to /api/chat with the draft " hi " trimmed is in flight
C3_Witness ==
    \E r \in inFlight :
        /\ r.endpoint = PlainEndpoint
        /\ r.message = <<"h", "i">>
        /\ r.session_id = sessionId

\* C4: the request an attachment submit sends to /api/chat-with-file carries
\* the file that was staged when the user submitted, the message of that
\* submit and the session token.
C4_SendsFileOfSubmit ==
    [][\A read \in BagToSet(sendReads) :
          AttachmentLoaded(read) =>
              \E r \in Issued :
                  /\ r.endpoint = FileEndpoint
                  /\ r.file = Some(read.file)
                  /\ r.message = read.message
                  /\ r.session_id = sessionId]_vars

\* C5: a submit with an attachment staged takes the attachment path whatever
\* the draft is, blank included: it reads the staged file and issues nothing
\* to /api/chat, and the request that follows the read goes to
\* /api/chat-with-file; a request to /api/chat is issued only by a step taken
\* with no attachment staged.
C5_AttachmentPrecedence ==
    [][/\ (Submit /\ currentAttachment # NULL) =>
            /\ Issued = {}
            /\ \E m \in {trim(userInput), DefaultAttachmentMessage} :
                   sendReads' = sendReads (+)
                       SetToBag({[message |-> m, file |-> currentAttachment]})
       /\ \A read \in BagToSet(sendReads) :
              AttachmentLoaded(read) =>
                  /\ Cardinality(Issued) = 1
                  /\ \A r \in Issued : r.endpoint = FileEndpoint
       /\ (\E r \in Issued : r.endpoint = PlainEndpoint) =>
              /\ currentAttachment = NULL
              /\ sendReads' = sendReads]_vars

\* a request to /api/chat-with-file is in flight that was submitted with an
\* attachment staged and a blank draft
C5_Witness ==
    \E r \in inFlight :
        /\ r.endpoint = FileEndpoint
        /\ r.message = DefaultAttachmentMessage

-----------------------------------------------------------------------------
(* Settlements *)

\* the settlements that reject the fetch promise of the model's requests
Failures == {resp \in Responses : resp.kind # "ok"}

\* the requests that leave inFlight in the step
Settled == inFlight \ inFlight'

\* C6: when a request, plain or with attachment, fails in transport or with a
\* status that is not 2xx, the apology is appended as a bot message, the typing
\* indicator of that request is no longer in the chat, the carousel is as it
\* was, and the session goes on: the draft, the attachment and the session
\* token are untouched for the following submit and the other requests stay in
\* flight.
C6_FailureApology ==
    [][\A request \in Settled : \A resp \in Failures :
          Settle(request, resp) =>
              /\ chat'[Len(chat')] \in
                     {Message("bot", Para(PlainApology), None),
                      Message("bot", Para(FileApology), None)}
              /\ request.id \notin IndicatorsShown'
              /\ UNCHANGED carouselVars
              /\ UNCHANGED <<sessionId, userInput, attachVars, sendReads>>
              /\ inFlight' = inFlight \ {request}]_vars

\* the 2xx replies that carry a message, which the handlers render
Replies == {resp \in Responses \ Failures : The(resp.body).message # None}

\* the product records of data all have the fields of the data model
WellFormed(data) ==
    /\ data.products # None =>
           \A k \in 1..Len(The(data.products)) : The(data.products)[k].description # None
    /\ data.product # None => The(data.product).description # None

\* the fields of data that are populated
Populated(data) ==
    {f \in {"products", "product", "order"} :
        /\ data[f] # None
        /\ f = "products" => The(data[f]) # <<>>}

\* C7: the payload of a reply, made of records of the data model, is resolved
\* with the precedence products > product > order > none, whatever the carousel
\* holds when the reply is handled: with products populated the carousel shows
\* the cards of exactly that list; otherwise with product present it shows the
\* one card of product; otherwise with order present nothing is rendered and
\* the carousel is as it was; otherwise the carousel is hidden.
C7_PayloadPrecedence ==
    \A data \in {d \in Payloads : WellFormed(d)} :
        LET fields == Populated(data)
            after == handleResponseData(Carousel, data)
        IN  /\ ~after.threw
            /\ IF "products" \in fields
               THEN /\ after.shown
                    /\ Len(after.cards) = Len(The(data.products))
                    /\ \A k \in 1..Len(The(data.products)) :
                           after.cards[k] = Card(The(data.products)[k])
               ELSE IF "product" \in fields
               THEN /\ after.shown
                    /\ after.cards = <<Card(The(data.product))>>
               ELSE IF "order" \in fields
               THEN /\ after.shown = carouselShown
                    /\ after.cards = productCarousel
                    /\ after.listeners = infoBtnListeners
               ELSE ~after.shown

\* the carousel shows the cards of a products list
C7_Witness ==
    /\ carouselShown
    /\ productCarousel = <<Card(P1), Card(P2)>>

\* C8: after a 2xx reply that populates none of products, product and order,
\* a reply without a data field included, the carousel is hidden, even when an
\* earlier reply made it visible.
C8_NoPayloadHidesCarousel ==
    [][\A request \in Settled : \A resp \in Replies :
          LET body == The(resp.body)
          IN  (/\ Settle(request, resp)
               /\ body.data # None => Populated(The(body.data)) = {}) =>
                  ~carouselShown']_vars

-----------------------------------------------------------------------------
(* Clearing the attachment *)

\* C9: after removeAttachment() no preview is displayed, whenever the preview
\* read that was pending completes: the image of a read started before a
\* removeAttachment() that completes after it is never displayed, neither at
\* its completion nor when another file is staged later.
C9_NoStalePreview == ~(PreviewDisplayed /\ imagePreviewStale)

\* C10: from any state removeAttachment() leaves no attachment staged, the file
\* input empty and the preview hidden, and a second removeAttachment() changes
\* nothing.
C10_ClearIdempotent ==
    LET once == removeAttachment(Attachment)
    IN  /\ once.currentAttachment = NULL
        /\ once.fileUploadValue = NULL
        /\ ~once.filePreviewContainerShown
        /\ ~once.imagePreviewShown
        /\ removeAttachment(once) = once

\* removeAttachment() has run while a preview read was pending, and nothing is
\* staged or displayed
C10_Witness ==
    /\ currentAttachment = NULL
    /\ ~filePreviewContainerShown
    /\ ~imagePreviewShown
    /\ \E read \in BagToSet(previewReads) : read.cleared

-----------------------------------------------------------------------------
(* Staging *)

\* the files of the chooser that handleFileUpload takes for images
Images == {f \in Files : IsImage(f)}

\* C11: at most one attachment is staged, and staging an image while another
\* is staged replaces it: after the choice of an image the slot holds that
\* image and nothing else, a submit that follows reads the image the slot
\* holds, and the request of that submit sends that image.
C11_StagingReplaces ==
    [][/\ currentAttachment' \in Images \cup {NULL}
       /\ \A file \in Images : ChooseFile(file) => currentAttachment' = file
       /\ (Submit /\ currentAttachment # NULL) =>
              \E read \in BagToSet(sendReads') :
                  /\ read.file = currentAttachment
                  /\ CopiesIn(read, sendReads') = CopiesIn(read, sendReads) + 1
       /\ \A read \in BagToSet(sendReads) :
              AttachmentLoaded(read) => \A r \in Issued : r.file = Some(read.file)]_vars

\* C12: the choice of a file whose MIME type is not an image type shows the
\* unsupported-type notice and does not stage the file: the slot does not
\* hold it, and an empty slot stays empty.
C12_UnsupportedType ==
    [][\A file \in Files \ Images :
          ChooseFile(file) =>
              /\ lastAlert' = Some(UnsupportedTypeNotice)
              /\ currentAttachment' # file
              /\ currentAttachment = NULL => currentAttachment' = NULL]_vars

\* the notice of an unsupported type has been shown and nothing is staged
C12_Witness ==
    /\ lastAlert = Some(UnsupportedTypeNotice)
    /\ currentAttachment = NULL
    /\ fileUploadValue = NULL

\* C13: a rejected choice (a file that is not an image) changes no state: the
\* slot keeps what it held, an image staged before included, and the draft,
\* the visibility and content of the preview and the transcript are as they
\* were.
C13_RejectionChangesNothing ==
    [][\A file \in Files \ Images :
          ChooseFile(file) =>
              UNCHANGED <<currentAttachment, userInput, filePreviewContainerShown,
                          imagePreviewShown, imagePreviewSrc, previewReads, chat,
                          inFlight, sendReads, carouselVars>>]_vars

\* a file that is not an image has been rejected while an image was staged,
\* and the image is still staged with its draft
C13_Witness ==
    /\ lastAlert = Some(UnsupportedTypeNotice)
    /\ currentAttachment = ImageA
    /\ filePreviewContainerShown
    /\ userInput = StagedDraft(ImageA)

-----------------------------------------------------------------------------
(* Dictation *)

\* the dictation state the page shows: Listening while the status is shown
Listening == voiceStatusShown

\* C14: dictation follows Idle --start--> Listening --(result|error|end)-->
\* Idle: with speech recognition a click on the microphone starts a
\* recognition and shows Listening; every result, error and end event leaves
\* the page Idle, with or without a transcript; the result writes its
\* transcript into the draft, error and end leave the draft alone; and, the
\* platform delivering the events of a started recognition, Listening is
\* always followed by Idle.
C14_DictationStateMachine ==
    /\ [][(VoiceClick /\ speechSupported) =>
              /\ Listening'
              /\ recognitions' = recognitions (+) SetToBag({"listening"})
              /\ UNCHANGED userInput]_vars
    /\ [][/\ \A transcript \in Transcripts :
                 onresult(transcript) => ~Listening' /\ userInput' = transcript
          /\ onerror => ~Listening' /\ UNCHANGED userInput
          /\ \A phase \in {"listening", "closing"} :
                 onend(phase) => ~Listening' /\ UNCHANGED userInput]_vars
    /\ (Listening ~> ~Listening)

\* a recognition has delivered its transcript: the draft holds it, the page is
\* Idle and the recognition waits for its end event
C14_Witness ==
    /\ userInput \in Transcripts
    /\ ~Listening
    /\ BagIn("closing", recognitions)

\* C15: without speech recognition a click on the microphone shows the notice
\* and changes no state: the page stays Idle, no recognition is created and
\* the draft is as it was.
C15_NoCapability ==
    [][(VoiceClick /\ ~speechSupported) =>
          /\ lastAlert' = Some(NoSpeechNotice)
          /\ ~Listening'
          /\ recognitions' = EmptyBag
          /\ UNCHANGED <<dictationVars, userInput, attachVars, chat, inFlight>>]_vars

\* the notice has been shown in a browser without speech recognition, over a
\* draft the user typed
C15_Witness ==
    /\ ~speechSupported
    /\ lastAlert = Some(NoSpeechNotice)
    /\ ~Listening
    /\ recognitions = EmptyBag
    /\ userInput = <<SP, "h", "i", SP>>

-----------------------------------------------------------------------------
(* Transcript and session *)

\* the messages of the transcript: the .message elements but the typing indicators
Messages(c) == SelectSeq(c, LAMBDA m : ~m.typing)

\* s is an initial part of t
IsPrefix(s, t) == Len(s) <= Len(t) /\ SubSeq(t, 1, Len(s)) = s

\* C16: the transcript is append-only: a step that is not clearChat removes,
\* reorders and changes no message that was appended, the messages before it
\* are the first messages after it; clearChat leaves the welcome message, the
\* first entry, and nothing else.
C16_AppendOnly ==
    [][/\ ClearChatClick => chat' = <<Welcome>>
       /\ ~ClearChatClick => IsPrefix(Messages(chat), Messages(chat'))]_vars

\* clearChat has removed the messages of at least one submit
C16_Witness ==
    /\ chat = <<Welcome>>
    /\ requestCount > 0

\* C17: the session token is made once, when the page loads, and never
\* changes, and every request the page issues, to /api/chat or to
\* /api/chat-with-file, after a clearChat and after a failed request as well,
\* carries it as session_id.
C17_SessionToken ==
    [][/\ sessionId' = sessionId
       /\ sessionId \in Tokens
       /\ \A r \in Issued : r.session_id = sessionId]_vars

\* after a request failed, a later request is in flight with the session token
C17_Witness ==
    /\ \E i \in 1..Len(chat) : chat[i].html \in {Para(PlainApology), Para(FileApology)}
    /\ \E r \in inFlight : r.id > 1 /\ r.session_id = sessionId

-----------------------------------------------------------------------------
(* Failures *)

\* C18: no failure leaves the page stuck: whenever every request that was
\* issued has settled, by a reply, a failure of the network, a reply that
\* cannot be rendered, whatever files were rejected in between, no typing
\* indicator is in the chat and sendMessage accepts a new draft.
C18_IdleAfterFailures ==
    inFlight = {} =>
        /\ IndicatorsShown = {}
        /\ ENABLED sendMessage(<<"h", "i">>)

\* two requests have settled, one of them at least by the apology, and none
\* is in flight
C18_Witness ==
    /\ inFlight = {}
    /\ requestCount = 2
    /\ \E i \in 1..Len(chat) : chat[i].html \in {Para(PlainApology), Para(FileApology)}

-----------------------------------------------------------------------------
(* Prices *)

\* a number written with two decimals: a sign or none, digits, a dot, two digits
IsTwoDecimal(text) ==
    LET u == IF text # <<>> /\ text[1] = "-" THEN Tail(text) ELSE text
    IN  /\ Len(u) >= 4
        /\ u[Len(u) - 2] = "."
        /\ \A i \in 1..Len(u) : i # Len(u) - 2 => u[i] \in Digits

\* the price is a number, or a string whose digits and dots parse to a number
IsValidNumber(price) == PriceNumber(price) # NaN

\* C19: extractCurrentPrice never throws and always returns a valid number
\* with two decimals: for a number the number rounded to two decimals, for a
\* string the parse of its digits and dots rounded to two decimals, and 0.00
\* whenever that is not a valid number (a string with no digit, a value that
\* is neither string nor number).
C19_ExtractNumeric ==
    priceCall.fn = "extractCurrentPrice" =>
        LET price == priceCall.args[1]
        IN  /\ priceCall.result # None
            /\ IsTwoDecimal(The(priceCall.result))
            /\ IsValidNumber(price) =>
                   The(priceCall.result) = toFixed2(PriceNumber(price))
            /\ ~IsValidNumber(price) =>
                   The(priceCall.result) = <<"0", ".", "0", "0">>

\* C20: calculateDiscount returns an integer in 0..100 for every pair of
\* inputs: 0 whenever current >= original or original <= 0, and otherwise
\* the integer nearest to (1 - current/original) * 100.
C20_DiscountPercent ==
    priceCall.fn = "calculateDiscount" =>
        LET current == PriceNumber(priceCall.args[1])
            original == PriceNumber(priceCall.args[2])
            result == The(priceCall.result)
        IN  /\ result \in 0..100
            /\ (current # NaN /\ original # NaN) =>
                   IF The(current) >= The(original) \/ The(original) <= 0
                   THEN result = 0
                   ELSE LET exact == 100 * (The(original) - The(current)) - result * The(original)
                        IN  2 * exact <= The(original) /\ -2 * exact <= The(original)

\* the product record has the field, with a value that is not null
Present(v) == v.type \in {"string", "number"}

\* the view formatPriceDisplay made is the discounted one or the plain one, with
\* the parts the view has
RightView(price, original_price, view, discounted) ==
    IF discounted
    THEN /\ view.kind = "discounted"
         /\ view.badge = TemplateText(price)
         /\ view.discount = Some(calculateDiscount(price, original_price))
         /\ view.strikeout # None
         /\ original_price.type = "string" => view.strikeout = Some(original_price.s)
    ELSE view = [kind |-> "plain", badge |-> TemplateText(price), discount |-> None,
                 strikeout |-> None]

\* C21, as stated: formatPriceDisplay emits the discounted view (the price
\* badge, the percent-off of calculateDiscount, the struck-through original
\* price) if and only if original_price is present and differs from price, and
\* otherwise the plain badge with the raw price field verbatim.
C21_PriceViewAsStated ==
    priceCall.fn = "formatPriceDisplay" =>
        RightView(priceCall.args[1], priceCall.args[2], The(priceCall.result),
                  Present(priceCall.args[2]) /\ priceCall.args[2] # priceCall.args[1])

\* C21, amended: formatPriceDisplay emits the discounted view if and only if
\* original_price is present with a value that is not the empty string and not
\* 0, and differs from price; otherwise it emits the plain badge with the raw
\* price field verbatim.  For price "$80" and original_price "$100" the view
\* has the discount 20 and the struck-through original "$100".
C21_PriceView ==
    priceCall.fn = "formatPriceDisplay" =>
        /\ RightView(priceCall.args[1], priceCall.args[2], The(priceCall.result),
                     Truthy(priceCall.args[2]) /\ priceCall.args[2] # priceCall.args[1])
        /\ priceCall.args = <<JSString(<<"$", "8", "0">>), JSString(<<"$", "1", "0", "0">>)>> =>
               /\ The(priceCall.result).discount = Some(20)
               /\ The(priceCall.result).strikeout = Some(<<"$", "1", "0", "0">>)
               /\ The(priceCall.result).badge = <<"$", "8", "0">>

\* the view of price "$80" and original_price "$100" has been made
C21_Witness ==
    /\ priceCall.fn = "formatPriceDisplay"
    /\ priceCall.args = <<JSString(<<"$", "8", "0">>), JSString(<<"$", "1", "0", "0">>)>>
    /\ The(priceCall.result).kind = "discounted"

-----------------------------------------------------------------------------
(* Linkification of replies *)

\* the reply texts of the model that formatMessageWithLinks changes
LinkableTexts == {t \in ReplyTexts : Linkified[t] # t}

\* C22: every reply text is passed through formatMessageWithLinks before it is
\* appended to the transcript, for the replies to /api/chat and to
\* /api/chat-with-file alike: no bot message of the transcript shows a reply
\* text with a product mention as the backend sent it, without its link.
C22_RepliesLinkified ==
    \A i \in 1..Len(chat) :
        chat[i].role = "bot" => chat[i].html \notin {Para(nl2br(t)) : t \in LinkableTexts}

\* a quote of the text that the quote pass pairs with no quote of its kind
RECURSIVE HasUnmatchedQuote(_)
HasUnmatchedQuote(s) ==
    IF s = <<>> THEN FALSE
    ELSE IF Head(s) \notin Quotes THEN HasUnmatchedQuote(Tail(s))
    ELSE LET n == UnquotedRun(Tail(s))
         IN  IF n >= 1 /\ n + 2 <= Len(s) /\ s[n + 2] = s[1]
             THEN HasUnmatchedQuote(SubSeq(s, n + 3, Len(s)))
             ELSE TRUE

\* C23: the quote pass is stable under re-application: for every text with
\* no unmatched quote, the quote pass on its own output gives the text that
\* one run of it gives.
C23_QuotePassIdempotent ==
    (/\ linkCall.fn = "LinkQuoted"
     /\ linkCall.passes = 2
     /\ ~HasUnmatchedQuote(linkCall.input)) =>
        linkCall.result = LinkQuoted(linkCall.input)

\* a link of the text opens inside another link
NestedLink(text) ==
    \E i, j \in 1..Len(text) :
        /\ i < j
        /\ text[i] = "<a href="
        /\ text[j] = "<a href="
        /\ \A k \in i..j : text[k] # "</a>"

\* C24: in one run of formatMessageWithLinks the noun pass wraps no text that
\* lies inside a link the quote pass inserted: no link of the output is nested
\* in, or overlaps, another link.
C24_NoNestedLinks ==
    linkCall.fn = "formatMessageWithLinks" => ~NestedLink(linkCall.result)

-----------------------------------------------------------------------------
(* Messages of a settlement *)

\* the bot messages of the transcript, the typing indicators left out
BotMessages(c) == SelectSeq(c, LAMBDA m : m.role = "bot" /\ ~m.typing)

\* C25: the settlement of a request appends exactly one bot message, the reply
\* on success or the apology on failure, never both and never none; a 2xx
\* reply whose rendering throws leaves the apology alone.
C25_OneMessagePerSettlement ==
    [][Settled # {} =>
          /\ Len(BotMessages(chat')) = Len(BotMessages(chat)) + 1
          /\ IsPrefix(Messages(chat), Messages(chat'))]_vars

\* C26: after clearChat the transcript holds the welcome message and the
\* messages of later submits only, and the carousel stays hidden until a later
\* submit is answered: when a request settles while the transcript is the
\* reset one (the request was in flight when clearChat ran, and nothing was
\* submitted since), nothing is appended and the carousel is not shown.
C26_NoLateReplies ==
    [][(chat = <<Welcome>> /\ Settled # {}) =>
          /\ chat' = <<Welcome>>
          /\ ~carouselShown']_vars

-----------------------------------------------------------------------------
(* Preview of the staged attachment *)

\* C27: whenever a preview is displayed and no preview read is pending, it is
\* the preview of the attachment that is staged: when file A is staged and
\* then replaced by file B, the preview ends up being B's, whatever the order
\* in which the two reads complete.
C27_PreviewOfStaged ==
    (PreviewDisplayed /\ previewReads = EmptyBag) =>
        /\ currentAttachment # NULL
        /\ imagePreviewSrc = DataURL(currentAttachment)

-----------------------------------------------------------------------------
(* Dictation sessions *)

\* the recognitions that have started and delivered neither result nor error
\* nor end: the sessions that can still write the draft
ActiveSessions == CopiesIn("listening", recognitions)

\* C28: at most one recognition session is active at any time, and Listening
\* is shown exactly while a session is active: a click on the microphone
\* while Listening starts no second session, and no event of one session
\* shows Idle while another session is active.
C28_SingleSession ==
    /\ ActiveSessions <= 1
    /\ Listening <=> ActiveSessions = 1

-----------------------------------------------------------------------------
(* Order of the transcript *)

\* the user messages of the transcript
UserMessages(c) == SelectSeq(c, LAMBDA m : m.role = "user")

\* every read of an attachment submit that was pending is still pending
StillReading ==
    \A read \in BagToSet(sendReads) : CopiesIn(read, sendReads') >= CopiesIn(read, sendReads)

\* C29: user messages are in the transcript in the order of their submits,
\* also when an attachment submit is followed by a text submit before the
\* file read completes: while the user message of an attachment submit is
\* not in the transcript yet, no step appends the user message of a later
\* submit.
C29_SubmitOrder ==
    [][(sendReads # EmptyBag /\ StillReading) =>
          Len(UserMessages(chat')) <= Len(UserMessages(chat))]_vars

-----------------------------------------------------------------------------
(* Blank drafts *)

\* C30: a submit with a blank draft (empty, or whitespace only) and no
\* attachment staged does nothing: no request, no typing indicator, and the
\* transcript, the carousel and the attachment slot are as they were; with an
\* attachment staged and a blank draft the attachment is sent with the
\* message "I'm sending an image.".
C30_BlankSubmit ==
    [][/\ (Submit /\ currentAttachment = NULL /\ trim(userInput) = <<>>) =>
            UNCHANGED <<chat, inFlight, requestCount, sendReads, carouselVars,
                        attachVars, userInput>>
       /\ (Submit /\ currentAttachment # NULL /\ trim(userInput) = <<>>) =>
            sendReads' = sendReads (+)
                SetToBag({[message |-> DefaultAttachmentMessage, file |-> currentAttachment]})
       /\ \A read \in BagToSet(sendReads) :
              (AttachmentLoaded(read) /\ read.message = DefaultAttachmentMessage) =>
                  /\ chat'[Len(chat') - 1].html = Para(DefaultAttachmentMessage)
                  /\ \E r \in Issued :
                         /\ r.message = DefaultAttachmentMessage
                         /\ r.file = Some(read.file)]_vars

====
